---- MODULE Spec2Model ----
(***************************************************************************)
(* A model of src/crypto/bignum.c: the bignum256 arithmetic kernel.        *)
(*                                                                         *)
(* A bignum256 is an array val[0..8] of uint32_t, digits in base 2^30.     *)
(* TLC's integers are 32 bits wide, so every C machine word (uint32_t,     *)
(* uint64_t) and every represented value is held here as a natural number  *)
(* in base 2^15: a sequence of digits 0..2^15-1, least significant first,  *)
(* with no leading zero digit (zero is <<>>).  The word operators below    *)
(* reduce modulo 2^32 or 2^64 exactly where the C types do.                *)
(***************************************************************************)
EXTENDS Integers, Sequences, FiniteSets, TLC

VARIABLES pc,      \* position of the running routine
          x,       \* bignum256 *x (in/out operand), or the value under test
          k,       \* second operand (bignum256 *k, *b)
          prime,   \* const bignum256 *prime
          x0,      \* the value x had on entry
          res,     \* local scratch: uint32_t res[18] / bignum256 res
          temp,    \* uint64_t temp
          coef,    \* uint32_t coef
          i,       \* outer loop index
          j,       \* inner loop index
          limb,    \* uint32_t limb (exponent limb being scanned)
          ret,     \* value returned, or a local flag
          sqrt_p,  \* local bignum256 p of bn_sqrt (the exponent)
          arg,     \* the further arguments of the call
          out,     \* output buffer
          str,       \* bn_format: char *str, as an index into out
          decimals,  \* bn_format: unsigned int decimals
          exponent,  \* bn_format: int exponent
          digits,    \* bn_format: unsigned int digits
          oob,       \* bn_format: a byte outside out[0..outlen-1] was written
          steps      \* the statements executed so far: <<statement, limb index>>

format_locals == <<str, decimals, exponent, digits, oob>>

vars == <<pc, x, k, prime, x0, res, temp, coef, i, j, limb, ret, sqrt_p, arg, out,
          format_locals, steps>>

-----------------------------------------------------------------------------
(* Natural numbers in base 2^15.                                           *)

B == 2^15

Max(a, b) == IF a >= b THEN a ELSE b

Dig(a, n) == IF n <= Len(a) THEN a[n] ELSE 0

RECURSIVE Trim(_)
Trim(a) == IF a = <<>> THEN a
           ELSE IF a[Len(a)] = 0 THEN Trim(SubSeq(a, 1, Len(a) - 1)) ELSE a

\* n is a TLC integer, 0 <= n < 2^31
RECURSIVE N(_)
N(n) == IF n = 0 THEN <<>> ELSE <<n % B>> \o N(n \div B)

RECURSIVE AddC(_, _, _, _)
AddC(a, b, n, c) ==
    IF n > Len(a) /\ n > Len(b)
    THEN (IF c = 0 THEN <<>> ELSE <<c>>)
    ELSE LET s == Dig(a, n) + Dig(b, n) + c
         IN  <<s % B>> \o AddC(a, b, n + 1, s \div B)

BAdd(a, b) == AddC(a, b, 1, 0)

RECURSIVE SubC(_, _, _, _)
SubC(a, b, n, c) ==
    IF n > Len(a) THEN <<>>
    ELSE LET s == a[n] - Dig(b, n) - c
         IN  IF s < 0 THEN <<s + B>> \o SubC(a, b, n + 1, 1)
                      ELSE <<s>> \o SubC(a, b, n + 1, 0)

\* a - b, for a >= b
BSub(a, b) == Trim(SubC(a, b, 1, 0))

RECURSIVE CmpFrom(_, _, _)
CmpFrom(a, b, n) ==
    IF n = 0 THEN 0
    ELSE IF a[n] < b[n] THEN -1
    ELSE IF a[n] > b[n] THEN 1
    ELSE CmpFrom(a, b, n - 1)

BCmp(a, b) == IF Len(a) < Len(b) THEN -1
              ELSE IF Len(a) > Len(b) THEN 1
              ELSE CmpFrom(a, b, Len(a))

BLt(a, b) == BCmp(a, b) < 0
BLe(a, b) == BCmp(a, b) <= 0

\* a * d + c for one digit d
RECURSIVE MulD(_, _, _, _)
MulD(a, d, n, c) ==
    IF n > Len(a)
    THEN (IF c = 0 THEN <<>> ELSE <<c>>)
    ELSE LET s == a[n] * d + c
         IN  <<s % B>> \o MulD(a, d, n + 1, s \div B)

Zeros(n) == [m \in 1..n |-> 0]

ShlD(a, n) == IF a = <<>> THEN a ELSE Zeros(n) \o a

\* a * b by columns: column n collects the low halves of the digit products
\* a[p] * b[q] with p + q = n + 1 and the high halves of those with p + q = n
RECURSIVE ColSum(_, _, _, _)
ColSum(a, b, n, p) ==
    IF p > Len(a) THEN 0
    ELSE (IF n + 1 - p \in 1..Len(b) THEN (a[p] * b[n + 1 - p]) % B ELSE 0)
       + (IF n - p \in 1..Len(b) THEN (a[p] * b[n - p]) \div B ELSE 0)
       + ColSum(a, b, n, p + 1)

RECURSIVE Carry(_, _, _)
Carry(s, n, c) ==
    IF n > Len(s) THEN <<>>
    ELSE LET t == s[n] + c
         IN  <<t % B>> \o Carry(s, n + 1, t \div B)

BMul(a, b) ==
    Trim(Carry([n \in 1..(Len(a) + Len(b)) |-> ColSum(a, b, n, 1)], 1, 0))

\* a << s and a >> s, exact (no width)
BShl(a, s) == ShlD(MulD(a, 2^(s % 15), 1, 0), s \div 15)

BShr(a, s) ==
    LET q == s \div 15
        r == s % 15
        n == Len(a) - q
    IN  IF n <= 0 THEN <<>>
        ELSE IF r = 0 THEN SubSeq(a, q + 1, Len(a))
        ELSE Trim([m \in 1..n |->
                 (a[m + q] \div 2^r) + (Dig(a, m + q + 1) % 2^r) * 2^(15 - r)])

\* a mod 2^s
BLow(a, s) ==
    LET q == s \div 15
        r == s % 15
    IN  IF Len(a) <= q THEN a
        ELSE IF r = 0 THEN Trim(SubSeq(a, 1, q))
        ELSE Trim([m \in 1..(q + 1) |-> IF m <= q THEN a[m] ELSE a[m] % 2^r])

Pow2(s) == BShl(<<1>>, s)

RECURSIVE DigLen(_)
DigLen(d) == IF d = 0 THEN 0 ELSE 1 + DigLen(d \div 2)

BitLen(a) == IF a = <<>> THEN 0 ELSE 15 * (Len(a) - 1) + DigLen(a[Len(a)])

\* a mod m by shift and subtract, m > 0
RECURSIVE ModSub(_, _)
ModSub(a, m) ==
    IF BLt(a, m) THEN a
    ELSE LET s == BitLen(a) - BitLen(m)
             t == BShl(m, s)
         IN  IF BLe(t, a) THEN ModSub(BSub(a, t), m)
                          ELSE ModSub(BSub(a, BShl(m, s - 1)), m)

\* a mod m, one digit of a at a time from the top; r is the remainder so far
RECURSIVE ModDown(_, _, _, _)
ModDown(a, m, n, r) ==
    IF n = 0 THEN r
    ELSE LET r2 == ModSub(BAdd(ShlD(r, 1), Trim(<<a[n]>>)), m)
         IN  IF r2 = <<>> THEN ModDown(a, m, n - 1, <<>>)
                          ELSE ModDown(a, m, n - 1, r2)

BMod(a, m) == ModDown(a, m, Len(a), <<>>)

\* bitwise operations on one digit, then on numbers
RECURSIVE DBit(_, _, _, _)
DBit(f, a, b, n) ==
    IF n = 0 THEN 0
    ELSE f[a % 2][b % 2] + 2 * DBit(f, a \div 2, b \div 2, n - 1)

TAnd == [p \in 0..1 |-> [q \in 0..1 |-> IF p = 1 /\ q = 1 THEN 1 ELSE 0]]
TOr  == [p \in 0..1 |-> [q \in 0..1 |-> IF p = 1 \/ q = 1 THEN 1 ELSE 0]]
TXor == [p \in 0..1 |-> [q \in 0..1 |-> IF p # q THEN 1 ELSE 0]]

BBit(f, a, b) ==
    Trim([m \in 1..Max(Len(a), Len(b)) |-> DBit(f, Dig(a, m), Dig(b, m), 15)])

BAnd(a, b) == BBit(TAnd, a, b)
BOr(a, b)  == BBit(TOr, a, b)
BXor(a, b) == BBit(TXor, a, b)

-----------------------------------------------------------------------------
(* C machine words.                                                        *)

U32(a) == BLow(a, 32)
U64(a) == BLow(a, 64)

P32 == Pow2(32)
P64 == Pow2(64)

\* unsigned subtraction a - b in a w-bit word (a, b < 2^w): wraps on underflow
SubW(a, b, w) == BLow(BSub(BAdd(a, IF w = 32 THEN P32 ELSE P64), b), w)

\* ~a and -a for a uint32_t
Not32(a) == BSub(BSub(P32, <<1>>), a)
Neg32(a) == U32(BSub(P32, a))

\* a * (uint64_t)b for uint32_t a, b: the exact product, which is < 2^64.
\* c1..c5 are the column sums with the carry of the column below.
MulW(a, b) ==
    LET a1 == Dig(a, 1)
        a2 == Dig(a, 2)
        a3 == Dig(a, 3)
        b1 == Dig(b, 1)
        b2 == Dig(b, 2)
        b3 == Dig(b, 3)
        c1 == a1 * b1
        c2 == a1 * b2 + a2 * b1 + c1 \div B
        c3 == a1 * b3 + a2 * b2 + a3 * b1 + c2 \div B
        c4 == a2 * b3 + a3 * b2 + c3 \div B
        c5 == a3 * b3 + c4 \div B
    IN  Trim(<<c1 % B, c2 % B, c3 % B, c4 % B, c5>>)

\* 0x3FFFFFFF, and x & 0x3FFFFFFF (the low 30 bits of x)
MASK30 == BSub(Pow2(30), <<1>>)
And30(a) == BLow(a, 30)

Limbs == 0..8

\* C runs its statements in order: v is computed before e is
Then(v, e) == IF v = v THEN e ELSE e

\* the value a bignum256 represents: sum val[i] * 2^(30 i)
RECURSIVE ValueFrom(_, _, _)
ValueFrom(a, n, hi) ==
    IF n > hi THEN <<>> ELSE BAdd(BShl(a[n], 30 * n), ValueFrom(a, n + 1, hi))

Value(a) == ValueFrom(a, 0, 8)

\* the normalized bignum256 holding value v < 2^270
FromValue(v) == [n \in Limbs |-> BLow(BShr(v, 30 * n), 30)]

Normalized(a) == \A n \in DOMAIN a : BLt(a[n], Pow2(30))

-----------------------------------------------------------------------------
(* Inputs.                                                                 *)

\* moduli in the band (2^256 - 2^224, 2^256): the secp256k1 and nist256p1
\* field primes, and the smallest and the largest prime of the band
P_SECP == BSub(BSub(Pow2(256), Pow2(32)), N(977))
P_NIST == BSub(BAdd(BAdd(BSub(Pow2(256), Pow2(224)), Pow2(192)), Pow2(96)), <<1>>)
P_LOW  == BAdd(BSub(Pow2(256), Pow2(224)), N(223))
P_HIGH == BSub(Pow2(256), N(189))

PrimeValues == {P_SECP, P_NIST, P_LOW, P_HIGH}
Primes == {FromValue(p) : p \in PrimeValues}

\* number of pseudo-random operands added to the boundary operands
NumRandom == 3

Rnd(s) == (s * 1103 + 12345) % B
RndDigit(t, n, d) == Rnd(Rnd(Rnd(977 * t + 31 * n + d)))

\* the t-th pseudo-random array of 9 arbitrary uint32_t
RndWords(t) ==
    [n \in Limbs |-> Trim(<<RndDigit(t, n, 0), RndDigit(t, n, 1), RndDigit(t, n, 2) % 4>>)]

\* boundary values of a uint32_t limb
WordVals == {<<>>, <<1>>, Pow2(16), MASK30, Pow2(30), BSub(Pow2(32), <<1>>)}

\* arrays of 9 arbitrary uint32_t: every limb v except limb e, which is w
AnyBignums ==
    {[n \in Limbs |-> IF n = e THEN w ELSE v] : e \in Limbs, v \in WordVals, w \in WordVals}
    \cup {RndWords(t) : t \in 1..NumRandom}

Zero9  == [n \in Limbs |-> <<>>]
Zero18 == [n \in 0..17 |-> <<>>]

\* the variables a routine does not use
Idle(v) == v = <<>>

FormatIdle ==
    Idle(str) /\ Idle(decimals) /\ Idle(exponent) /\ Idle(digits) /\ Idle(oob)

-----------------------------------------------------------------------------
(* bn_fast_mod                                                             *)

BIAS0 == Pow2(61)                      \* 0x2000000000000000
BIAS  == BSub(Pow2(61), Pow2(31))      \* 0x1FFFFFFF80000000

\* (a wrong shift count: the coefficient is doubled)
fast_mod_coef_shift15(a) == BShr(a[8], 15)

\* coef = x->val[8] >> 16
fast_mod_coef(a) == BShr(a[8], 16)

\* bias + x->val[j] - prime->val[j] * (uint64_t)coef, in uint64_t
reduce_term(bias, xj, pj, c) == SubW(U64(BAdd(bias, xj)), MulW(pj, c), 64)

\* temp >>= 30; temp += 0x1FFFFFFF80000000ull + x->val[j] - prime->val[j] * coef
reduce_next(t, xj, pj, c) == U64(BAdd(BShr(t, 30), reduce_term(BIAS, xj, pj, c)))

RECURSIVE fast_mod_loop(_, _, _, _, _)
fast_mod_loop(a, p, c, t, n) ==
    IF n = 9 THEN a
    ELSE LET t2 == reduce_next(t, a[n], p[n], c)
             a2 == [a EXCEPT ![n] = And30(t2)]
         IN  Then(a2, fast_mod_loop(a2, p, c, t2, n + 1))

bn_fast_mod(a, p) ==
    LET c  == fast_mod_coef(a)
        t0 == reduce_term(BIAS0, a[0], p[0], c)
    IN  fast_mod_loop([a EXCEPT ![0] = And30(t0)], p, c, t0, 1)

\* the routine, one loop iteration per step
FM_Init ==
    /\ pc = "fast_mod"
    /\ x \in AnyBignums
    /\ prime \in Primes
    /\ x0 = x
    /\ Idle(k) /\ Idle(res) /\ Idle(temp) /\ Idle(coef)
    /\ Idle(i) /\ Idle(j) /\ Idle(limb) /\ Idle(ret)
    /\ Idle(sqrt_p) /\ Idle(arg) /\ Idle(out)
    /\ FormatIdle /\ Idle(steps)

FM_First ==
    /\ pc = "fast_mod"
    /\ coef' = fast_mod_coef(x)
    /\ temp' = reduce_term(BIAS0, x[0], prime[0], coef')
    /\ x' = [x EXCEPT ![0] = And30(temp')]
    /\ j' = 1
    /\ pc' = "fast_mod_loop"
    /\ UNCHANGED <<k, prime, x0, res, i, limb, ret, sqrt_p, arg, out, format_locals, steps>>

FM_Loop ==
    /\ pc = "fast_mod_loop"
    /\ j < 9
    /\ temp' = reduce_next(temp, x[j], prime[j], coef)
    /\ x' = [x EXCEPT ![j] = And30(temp')]
    /\ j' = j + 1
    /\ UNCHANGED <<pc, k, prime, x0, res, coef, i, limb, ret, sqrt_p, arg, out, format_locals, steps>>

FM_Return ==
    /\ pc = "fast_mod_loop"
    /\ j = 9
    /\ pc' = "fast_mod_done"
    /\ UNCHANGED <<x, k, prime, x0, res, temp, coef, i, j, limb, ret, sqrt_p, arg, out, format_locals, steps>>

FM_Next == FM_First \/ FM_Loop \/ FM_Return

SpecFastMod == FM_Init /\ [][FM_Next]_vars

Congruent(a, b, m) == BMod(a, m) = BMod(b, m)

PartlyReduced(a, p) == Normalized(a) /\ BLt(Value(a), BShl(Value(p), 1))

\* C1: bn_fast_mod, for a prime of the band and any nine uint32_t limbs:
\* the biased 64-bit subtraction never underflows in the limb loop, and on
\* return every limb is < 2^30, the value is < 2*prime and is congruent to the
\* input modulo prime.
C1_FastMod ==
    /\ pc = "fast_mod" =>
          BLe(BMul(prime[0], fast_mod_coef(x)), BAdd(BIAS0, x[0]))
    /\ (pc = "fast_mod_loop" /\ j < 9) =>
          BLe(BMul(prime[j], coef), BAdd(BIAS, x[j]))
    /\ pc = "fast_mod_done" =>
          /\ PartlyReduced(x, prime)
          /\ Congruent(Value(x), Value(x0), Value(prime))
          /\ x = bn_fast_mod(x0, prime)

\* an input with a limb above 2^30 and a nonzero coefficient has been reduced
C1_Witness ==
    /\ pc = "fast_mod_done"
    /\ ~Normalized(x0)
    /\ coef # <<>>
    /\ x # x0

-----------------------------------------------------------------------------
(* bn_multiply_long, bn_multiply_reduce_step, bn_multiply_reduce,          *)
(* bn_multiply                                                             *)

\* for (j = lo; j <= hi; j++) temp += k->val[j] * (uint64_t)x->val[i - j];
RECURSIVE multiply_long_sum(_, _, _, _, _, _)
multiply_long_sum(a, b, n, lo, hi, t) ==
    IF lo > hi THEN t
    ELSE LET t2 == U64(BAdd(t, MulW(a[lo], b[n - lo])))
         IN  Then(t2, multiply_long_sum(a, b, n, lo + 1, hi, t2))

\* the two loops over i: the lower half sums j = 0..i, the upper j = i-8..8
RECURSIVE multiply_long_from(_, _, _, _, _)
multiply_long_from(a, b, n, t, r) ==
    IF n = 17 THEN [r EXCEPT ![17] = U32(t)]
    ELSE LET t2 == multiply_long_sum(a, b, n, IF n < 9 THEN 0 ELSE n - 8,
                                     IF n < 9 THEN n ELSE 8, t)
             r2 == [r EXCEPT ![n] = And30(t2)]
         IN  Then(r2, multiply_long_from(a, b, n + 1, BShr(t2, 30), r2))

bn_multiply_long(a, b, r) == multiply_long_from(a, b, 0, <<>>, r)

\* (the window's upper limb left out of the coefficient)
reduce_step_coef_low(r, n) == BShr(r[n], 16)

\* coef = (res[i] >> 16) + (res[i + 1] << 14), in uint32_t
reduce_step_coef(r, n) == U32(BAdd(BShr(r[n], 16), U32(BShl(r[n + 1], 14))))

\* temp >>= 30; temp += 0x1FFFFFFF80000000ull + res[i - 8 + j]   (j = 9)
reduce_last(t, rj) == U64(BAdd(BShr(t, 30), U64(BAdd(BIAS, rj))))

RECURSIVE reduce_step_loop(_, _, _, _, _, _)
reduce_step_loop(r, p, n, c, t, m) ==
    IF m = 9
    THEN [r EXCEPT ![n + 1] = And30(reduce_last(t, r[n + 1]))]
    ELSE LET t2 == reduce_next(t, r[n - 8 + m], p[m], c)
             r2 == [r EXCEPT ![n - 8 + m] = And30(t2)]
         IN  Then(r2, reduce_step_loop(r2, p, n, c, t2, m + 1))

bn_multiply_reduce_step(r, p, n) ==
    LET c  == reduce_step_coef(r, n)
        t0 == reduce_term(BIAS0, r[n - 8], p[0], c)
    IN  reduce_step_loop([r EXCEPT ![n - 8] = And30(t0)], p, n, c, t0, 1)

\* for (i = 16; i >= 8; i--) bn_multiply_reduce_step(res, prime, i);
RECURSIVE multiply_reduce_from(_, _, _)
multiply_reduce_from(r, p, n) ==
    IF n < 8 THEN r
    ELSE LET r2 == bn_multiply_reduce_step(r, p, n)
         IN  Then(r2, multiply_reduce_from(r2, p, n - 1))

\* for (i = 0; i < 9; i++) x->val[i] = res[i];
reduce_store(r) == [n \in Limbs |-> r[n]]

\* the result x and what is left in res
bn_multiply_reduce(r, p) ==
    LET r2 == multiply_reduce_from(r, p, 16)
    IN  [x |-> reduce_store(r2), res |-> r2]

\* memzero(res, sizeof(res))
memzero(buf) == [n \in DOMAIN buf |-> <<>>]

\* the frame of bn_multiply on return: x, and the local res
multiply_frame(a, b, p) ==
    LET f == bn_multiply_reduce(bn_multiply_long(a, b, Zero18), p)
    IN  [x |-> f.x, res |-> memzero(f.res)]

bn_multiply(a, b, p) == multiply_frame(a, b, p).x

\* the t-th pseudo-random normalized bignum with a value below bound
RndBelow(t, bound) == FromValue(BMod(BLow(Value(RndWords(t)), 270), bound))

\* both inputs must be smaller than 180 * prime
MulBound(p) == BMul(N(180), Value(p))

\* normalized operands below 180 * prime, with the boundary values of the
\* reduction states among them
MulOperands(p) ==
    {FromValue(v) : v \in {<<>>, <<1>>, BSub(Value(p), <<1>>), Value(p),
                           BSub(BShl(Value(p), 1), <<1>>), BSub(MulBound(p), <<1>>)}}
    \cup {RndBelow(t, MulBound(p)) : t \in 1..NumRandom}

\* bn_multiply, one reduction step per step
M_Init ==
    /\ pc = "multiply"
    /\ prime \in Primes
    /\ k \in MulOperands(prime)
    /\ x \in MulOperands(prime)
    /\ x0 = x
    /\ res = Zero18
    /\ Idle(temp) /\ Idle(coef) /\ Idle(i) /\ Idle(j) /\ Idle(limb) /\ Idle(ret)
    /\ Idle(sqrt_p) /\ Idle(arg) /\ Idle(out)
    /\ FormatIdle /\ Idle(steps)

M_Long ==
    /\ pc = "multiply"
    /\ res' = bn_multiply_long(k, x, res)
    /\ i' = 16
    /\ pc' = "reduce"
    /\ UNCHANGED <<x, k, prime, x0, temp, coef, j, limb, ret, sqrt_p, arg, out, format_locals, steps>>

M_Step ==
    /\ pc = "reduce"
    /\ i >= 8
    /\ coef' = reduce_step_coef(res, i)
    /\ res' = bn_multiply_reduce_step(res, prime, i)
    /\ i' = i - 1
    /\ UNCHANGED <<pc, x, k, prime, x0, temp, j, limb, ret, sqrt_p, arg, out, format_locals, steps>>

M_Store ==
    /\ pc = "reduce"
    /\ i < 8
    /\ x' = reduce_store(res)
    /\ res' = memzero(res)
    /\ pc' = "multiply_done"
    /\ UNCHANGED <<k, prime, x0, temp, coef, i, j, limb, ret, sqrt_p, arg, out, format_locals, steps>>

M_Next == M_Long \/ M_Step \/ M_Store

SpecMul == M_Init /\ [][M_Next]_vars

\* C2: bn_multiply, for a prime of the band and normalized k, x below
\* 180*prime: every reduction step's coefficient is < 2^31, limb i+1 of the
\* product is zero after step i (i = 16..8), and on return x is normalized,
\* below 2*prime and congruent to (old k * old x) modulo prime.
C2_Multiply ==
    /\ (pc = "reduce" /\ i >= 8) => BLt(reduce_step_coef(res, i), Pow2(31))
    /\ (pc = "reduce" /\ i < 16) => (res[i + 2] = <<>> /\ BLt(coef, Pow2(31)))
    /\ pc = "multiply_done" =>
          /\ PartlyReduced(x, prime)
          /\ Congruent(Value(x), BMul(Value(k), Value(x0)), Value(prime))
          /\ x = bn_multiply(k, x0, prime)

\* two operands that are not even partly reduced have been multiplied
C2_Witness ==
    /\ pc = "multiply_done"
    /\ ~BLt(Value(k), BShl(Value(prime), 1))
    /\ ~BLt(Value(x0), BShl(Value(prime), 1))
    /\ x # x0

-----------------------------------------------------------------------------
(* bn_is_zero, bn_is_less, bn_is_equal, bn_cmov, bn_subtract, bn_mod       *)

\* a C truth value
Bool(b) == IF b THEN 1 ELSE 0

\* for (i = 0; i < 9; i++) result |= a->val[i];   return !result;
RECURSIVE is_zero_loop(_, _, _)
is_zero_loop(a, n, r) ==
    IF n = 9 THEN r
    ELSE LET r2 == BOr(r, a[n]) IN Then(r2, is_zero_loop(a, n + 1, r2))

bn_is_zero(a) == Bool(is_zero_loop(a, 0, <<>>) = <<>>)

\* res = (res << 1) | bit, in uint32_t
less_shift(r, bit) == BOr(U32(BShl(r, 1)), N(Bool(bit)))

\* for (i = 8; i >= 0; i--) { res1 = (res1 << 1) | (a->val[i] < b->val[i]);
\*                            res2 = (res2 << 1) | (a->val[i] > b->val[i]); }
RECURSIVE is_less_loop(_, _, _, _, _)
is_less_loop(a, b, n, r1, r2) ==
    IF n < 0 THEN Bool(BLt(r2, r1))
    ELSE LET s1 == less_shift(r1, BLt(a[n], b[n]))
             s2 == less_shift(r2, BLt(b[n], a[n]))
         IN  Then(<<s1, s2>>, is_less_loop(a, b, n - 1, s1, s2))

\* (the limbs scanned from the least significant one up)
RECURSIVE is_less_loop_up(_, _, _, _, _)
is_less_loop_up(a, b, n, r1, r2) ==
    IF n > 8 THEN Bool(BLt(r2, r1))
    ELSE LET s1 == less_shift(r1, BLt(a[n], b[n]))
             s2 == less_shift(r2, BLt(b[n], a[n]))
         IN  Then(<<s1, s2>>, is_less_loop_up(a, b, n + 1, s1, s2))

bn_is_less_lsb_first(a, b) == is_less_loop_up(a, b, 0, <<>>, <<>>)

bn_is_less(a, b) == is_less_loop(a, b, 8, <<>>, <<>>)

\* for (i = 0; i < 9; i++) result |= (a->val[i] ^ b->val[i]);   return !result;
RECURSIVE is_equal_loop(_, _, _, _)
is_equal_loop(a, b, n, r) ==
    IF n = 9 THEN r
    ELSE LET r2 == BOr(r, BXor(a[n], b[n])) IN Then(r2, is_equal_loop(a, b, n + 1, r2))

bn_is_equal(a, b) == Bool(is_equal_loop(a, b, 0, <<>>) = <<>>)

\* (the two masks exchanged)
bn_cmov_swapped(cond, truecase, falsecase) ==
    LET fmask == Neg32(N(cond))
        tmask == Not32(fmask)
    IN  [n \in Limbs |-> BOr(BAnd(truecase[n], tmask), BAnd(falsecase[n], fmask))]

\* tmask = (uint32_t) -cond; fmask = ~tmask;
\* res->val[i] = (truecase->val[i] & tmask) | (falsecase->val[i] & fmask)
bn_cmov(cond, truecase, falsecase) ==
    LET tmask == Neg32(N(cond))
        fmask == Not32(tmask)
    IN  [n \in Limbs |-> BOr(BAnd(truecase[n], tmask), BAnd(falsecase[n], fmask))]

\* tmp = 1; for each limb: tmp += 0x3FFFFFFF + a->val[i] - b->val[i];
\*                         res->val[i] = tmp & 0x3FFFFFFF; tmp >>= 30;
RECURSIVE subtract_loop(_, _, _, _, _)
subtract_loop(a, b, n, tmp, r) ==
    IF n = 9 THEN r
    ELSE LET t == U32(BAdd(tmp, SubW(U32(BAdd(MASK30, a[n])), b[n], 32)))
             r2 == [r EXCEPT ![n] = And30(t)]
         IN  Then(r2, subtract_loop(a, b, n + 1, BShr(t, 30), r2))

bn_subtract(a, b) == subtract_loop(a, b, 0, <<1>>, Zero9)

\* flag = bn_is_less(x, prime); bn_subtract(x, prime, &temp);
\* bn_cmov(x, flag, x, &temp);
bn_mod(a, p) == bn_cmov(bn_is_less(a, p), a, bn_subtract(a, p))

\* partly reduced inputs: the values around 0, prime and 2*prime, the values
\* that differ from prime in one limb only, and pseudo-random ones
ModOperands(p) ==
    {FromValue(v) : v \in
        {<<>>, <<1>>, BSub(Value(p), <<2>>), BSub(Value(p), <<1>>), Value(p),
         BAdd(Value(p), <<1>>), BSub(Pow2(256), <<1>>), Pow2(256),
         BSub(BShl(Value(p), 1), <<2>>), BSub(BShl(Value(p), 1), <<1>>)}
        \cup {BSub(Value(p), Pow2(30 * e)) : e \in Limbs}
        \cup {BAdd(Value(p), Pow2(30 * e)) : e \in Limbs}}
    \cup {RndBelow(t, BShl(Value(p), 1)) : t \in 1..NumRandom}

\* bn_mod, one statement per step; temp is the local bignum256 temp and
\* ret the local flag
Mod_Init ==
    /\ pc = "mod"
    /\ prime \in Primes
    /\ x \in ModOperands(prime)
    /\ x0 = x
    /\ Idle(k) /\ Idle(res) /\ Idle(temp) /\ Idle(coef)
    /\ Idle(i) /\ Idle(j) /\ Idle(limb) /\ Idle(ret)
    /\ Idle(sqrt_p) /\ Idle(arg) /\ Idle(out)
    /\ FormatIdle /\ Idle(steps)

Mod_Less ==
    /\ pc = "mod"
    /\ ret' = bn_is_less(x, prime)
    /\ pc' = "mod_subtract"
    /\ UNCHANGED <<x, k, prime, x0, res, temp, coef, i, j, limb, sqrt_p, arg, out, format_locals, steps>>

Mod_Subtract ==
    /\ pc = "mod_subtract"
    /\ temp' = bn_subtract(x, prime)
    /\ pc' = "mod_cmov"
    /\ UNCHANGED <<x, k, prime, x0, res, coef, i, j, limb, ret, sqrt_p, arg, out, format_locals, steps>>

Mod_Cmov ==
    /\ pc = "mod_cmov"
    /\ x' = bn_cmov(ret, x, temp)
    /\ pc' = "mod_done"
    /\ UNCHANGED <<k, prime, x0, res, temp, coef, i, j, limb, ret, sqrt_p, arg, out, format_locals, steps>>

Mod_Next == Mod_Less \/ Mod_Subtract \/ Mod_Cmov

SpecMod == Mod_Init /\ [][Mod_Next]_vars

FullyReduced(a, p) == Normalized(a) /\ BLt(Value(a), Value(p))

C3_Result ==
    pc = "mod_done" =>
        /\ FullyReduced(x, prime)
        /\ Value(x) = IF BLt(Value(x0), Value(prime)) THEN Value(x0)
                      ELSE BSub(Value(x0), Value(prime))
        /\ x = bn_mod(x0, prime)

\* C3: bn_mod of a partly reduced x leaves x fully reduced, equal to old x
\* when old x < prime and to old x - prime otherwise; no step changes prime.
C3_Mod == [](C3_Result) /\ [][prime' = prime]_vars

\* an x in [prime, 2*prime) has been reduced by the conditional subtraction
C3_Witness ==
    /\ pc = "mod_done"
    /\ ~BLt(Value(x0), Value(prime))
    /\ x # x0

-----------------------------------------------------------------------------
(* Ordering of normalized bignums.                                         *)

\* normalized operands: boundary values, values that differ in one limb
\* only, and pseudo-random ones
CmpOperands ==
    {[n \in Limbs |-> IF n = e THEN w ELSE v] :
        e \in {0, 4, 8}, v \in {<<>>, MASK30}, w \in {<<>>, <<1>>, BSub(MASK30, <<1>>), MASK30}}
    \cup {[n \in Limbs |-> BLow(RndWords(t)[n], 30)] : t \in 1..NumRandom}

Cmp_Init ==
    /\ pc = "compare"
    /\ x \in CmpOperands
    /\ k \in CmpOperands
    /\ x0 = x
    /\ Idle(prime) /\ Idle(res) /\ Idle(temp) /\ Idle(coef)
    /\ Idle(i) /\ Idle(j) /\ Idle(limb) /\ Idle(ret)
    /\ Idle(sqrt_p) /\ Idle(arg) /\ Idle(out)
    /\ FormatIdle /\ Idle(steps)

\* the three predicates on the pair (x, k)
Cmp_Call ==
    /\ pc = "compare"
    /\ ret' = [less |-> bn_is_less(x, k), equal |-> bn_is_equal(x, k),
               greater |-> bn_is_less(k, x)]
    /\ pc' = "compare_done"
    /\ UNCHANGED <<x, k, prime, x0, res, temp, coef, i, j, limb, sqrt_p, arg, out, format_locals, steps>>

Cmp_Next == Cmp_Call

SpecCmp == Cmp_Init /\ [][Cmp_Next]_vars

\* C7: for normalized a, b exactly one of bn_is_less(a, b), bn_is_equal(a, b),
\* bn_is_less(b, a) is true, and bn_is_less(a, b) is true exactly when the
\* value of a is smaller than the value of b.
C7_Trichotomy ==
    pc = "compare_done" =>
        /\ ret.less + ret.equal + ret.greater = 1
        /\ (ret.less = 1) <=> BLt(Value(x), Value(k))
        /\ (ret.greater = 1) <=> BLt(Value(k), Value(x))

\* a pair that differs in a low limb only, the high limbs being equal and
\* nonzero, has been compared
C7_Witness ==
    /\ pc = "compare_done"
    /\ ret.less = 1
    /\ x[8] = k[8] /\ x[8] # <<>>
    /\ x[0] # k[0]

-----------------------------------------------------------------------------
(* bn_inverse, bn_sqrt                                                     *)

\* a->val[0] = 1, the other limbs 0
bn_one == [n \in Limbs |-> IF n = 0 THEN <<1>> ELSE <<>>]

\* tmp = b; for each limb: tmp += a->val[i]; a->val[i] = tmp & 0x3FFFFFFF;
\*                         tmp >>= 30;
RECURSIVE addi_loop(_, _, _)
addi_loop(a, n, tmp) ==
    IF n = 9 THEN a
    ELSE LET t  == U32(BAdd(tmp, a[n]))
             a2 == [a EXCEPT ![n] = And30(t)]
         IN  Then(a2, addi_loop(a2, n + 1, BShr(t, 30)))

bn_addi(a, b) == addi_loop(a, 0, b)

\* a->val[i] = (a->val[i] >> 1) | ((a->val[i + 1] & 1) << 29) for i < 8,
\* a->val[8] >>= 1; a->val[i + 1] is read before it is written
bn_rshift(a) ==
    [n \in Limbs |-> IF n < 8
                     THEN BOr(BShr(a[n], 1), U32(BShl(BAnd(a[n + 1], <<1>>), 29)))
                     ELSE BShr(a[8], 1)]

\* limb = prime->val[i]; if (i == 0) limb -= 2;
\* (the exponent prime instead of prime - 2)
inverse_limb_no_sub2(m, n) == m[n]

inverse_limb(m, n) == IF n = 0 THEN SubW(m[0], <<2>>, 32) ELSE m[n]

\* if (i == 8 && limb == 0) break;  or the end of for (j = 0; j < 30; j++)
bits_done(n, b, l) == b >= 30 \/ (n = 8 /\ l = <<>>)

\* if (limb & 1) bn_multiply(x, &res, prime);
exp_multiply(l, a, r, m) == IF BAnd(l, <<1>>) # <<>> THEN bn_multiply(a, r, m) ELSE r

\* one iteration of the bit loop, shared by bn_inverse and bn_sqrt
ExpBit ==
    /\ res' = exp_multiply(limb, x, res, prime)
    /\ limb' = BShr(limb, 1)
    /\ x' = bn_multiply(x, x, prime)
    /\ j' = j + 1

\* number of pseudo-random operands of an exponentiation
NumExpRandom == 1

\* nonzero operands below prime
InvOperands(m) ==
    {FromValue(v) : v \in {<<2>>, BSub(Value(m), <<1>>)}}
    \cup {RndBelow(t, Value(m)) : t \in 1..NumExpRandom}

\* the primes the routine is used with
InvPrimes == {FromValue(P_SECP), FromValue(P_NIST)}

Inv_Init ==
    /\ pc = "inverse"
    /\ prime \in InvPrimes
    /\ x \in InvOperands(prime)
    /\ x0 = x
    /\ Idle(k) /\ Idle(res) /\ Idle(temp) /\ Idle(coef)
    /\ Idle(i) /\ Idle(j) /\ Idle(limb) /\ Idle(ret)
    /\ Idle(sqrt_p) /\ Idle(arg) /\ Idle(out)
    /\ FormatIdle /\ Idle(steps)

Inv_Enter ==
    /\ pc = "inverse"
    /\ res' = bn_one
    /\ i' = 0
    /\ pc' = "inverse_limb"
    /\ UNCHANGED <<x, k, prime, x0, temp, coef, j, limb, ret, sqrt_p, arg, out, format_locals, steps>>

Inv_Limb ==
    /\ pc = "inverse_limb"
    /\ i < 9
    /\ limb' = inverse_limb(prime, i)
    /\ j' = 0
    /\ pc' = "inverse_bit"
    /\ UNCHANGED <<x, k, prime, x0, res, temp, coef, i, ret, sqrt_p, arg, out, format_locals, steps>>

Inv_Bit ==
    /\ pc = "inverse_bit"
    /\ ~bits_done(i, j, limb)
    /\ ExpBit
    /\ UNCHANGED <<pc, k, prime, x0, temp, coef, i, ret, sqrt_p, arg, out, format_locals, steps>>

Inv_BitsDone ==
    /\ pc = "inverse_bit"
    /\ bits_done(i, j, limb)
    /\ i' = i + 1
    /\ pc' = "inverse_limb"
    /\ UNCHANGED <<x, k, prime, x0, res, temp, coef, j, limb, ret, sqrt_p, arg, out, format_locals, steps>>

\* bn_mod(&res, prime); memcpy(x, &res, sizeof(bignum256));  and return
Inv_Finish ==
    /\ pc = "inverse_limb"
    /\ i = 9
    /\ res' = bn_mod(res, prime)
    /\ x' = res'
    /\ pc' = "inverse_done"
    /\ UNCHANGED <<k, prime, x0, temp, coef, i, j, limb, ret, sqrt_p, arg, out, format_locals, steps>>

Inv_Next == Inv_Enter \/ Inv_Limb \/ Inv_Bit \/ Inv_BitsDone \/ Inv_Finish

SpecInv == Inv_Init /\ [][Inv_Next]_vars

\* C4: for a nonzero x < p, bn_inverse leaves a fully reduced y with
\* bn_mod(bn_multiply(x, y, p), p) = 1.
C4_Inverse ==
    pc = "inverse_done" =>
        /\ FullyReduced(x, prime)
        /\ bn_mod(bn_multiply(x0, x, prime), prime) = bn_one

\* an inverse other than the operand itself has been returned, the bit loop
\* having left the top limb early
C4_Witness ==
    /\ pc = "inverse_done"
    /\ x # x0
    /\ j < 30
    /\ x0 # bn_one

\* bn_sqrt, one bit of the exponent per step
Sqrt_Enter ==
    /\ pc = "sqrt"
    /\ res' = bn_one
    /\ sqrt_p' = bn_rshift(bn_rshift(bn_addi(prime, <<1>>)))
    /\ i' = 0
    /\ pc' = "sqrt_limb"
    /\ UNCHANGED <<x, k, prime, x0, temp, coef, j, limb, ret, arg, out, format_locals, steps>>

Sqrt_Limb ==
    /\ pc = "sqrt_limb"
    /\ i < 9
    /\ limb' = sqrt_p[i]
    /\ j' = 0
    /\ pc' = "sqrt_bit"
    /\ UNCHANGED <<x, k, prime, x0, res, temp, coef, i, ret, sqrt_p, arg, out, format_locals, steps>>

Sqrt_Bit ==
    /\ pc = "sqrt_bit"
    /\ ~bits_done(i, j, limb)
    /\ ExpBit
    /\ UNCHANGED <<pc, k, prime, x0, temp, coef, i, ret, sqrt_p, arg, out, format_locals, steps>>

Sqrt_BitsDone ==
    /\ pc = "sqrt_bit"
    /\ bits_done(i, j, limb)
    /\ i' = i + 1
    /\ pc' = "sqrt_limb"
    /\ UNCHANGED <<x, k, prime, x0, res, temp, coef, j, limb, ret, sqrt_p, arg, out, format_locals, steps>>

\* bn_mod(&res, prime); memcpy(x, &res, sizeof(bignum256));
\* memzero(&res, sizeof(res)); memzero(&p, sizeof(p));  and return
Sqrt_Finish ==
    /\ pc = "sqrt_limb"
    /\ i = 9
    /\ x' = bn_mod(res, prime)
    /\ res' = memzero(res)
    /\ sqrt_p' = memzero(sqrt_p)
    /\ pc' = "sqrt_done"
    /\ UNCHANGED <<k, prime, x0, temp, coef, i, j, limb, ret, arg, out, format_locals, steps>>

Sqrt_Next == Sqrt_Enter \/ Sqrt_Limb \/ Sqrt_Bit \/ Sqrt_BitsDone \/ Sqrt_Finish

\* the three routines that keep sensitive intermediate values in locals,
\* each called once or more for the smallest prime of the band
Scratch_Init ==
    /\ prime = FromValue(P_LOW)
    /\ \/ pc = "multiply" /\ k \in MulOperands(prime) /\ x \in MulOperands(prime)
          /\ res = Zero18
       \/ pc = "inverse" /\ Idle(k) /\ x = FromValue(<<2>>) /\ Idle(res)
       \/ pc = "sqrt" /\ Idle(k) /\ x = FromValue(<<4>>) /\ Idle(res)
    /\ x0 = x
    /\ Idle(temp) /\ Idle(coef) /\ Idle(i) /\ Idle(j) /\ Idle(limb) /\ Idle(ret)
    /\ Idle(sqrt_p) /\ Idle(arg) /\ Idle(out)
    /\ FormatIdle /\ Idle(steps)

Scratch_Next == M_Next \/ Inv_Next \/ Sqrt_Next

SpecScratch == Scratch_Init /\ [][Scratch_Next]_vars

\* C5: on return from bn_multiply, bn_inverse and bn_sqrt every local
\* scratch buffer that held intermediate values (res[18] of bn_multiply,
\* the accumulator res of bn_inverse, res and p of bn_sqrt) holds only zeros.
C5_ScratchCleared ==
    /\ pc = "multiply_done" => res = Zero18
    /\ pc = "inverse_done" => res = Zero9
    /\ pc = "sqrt_done" => (res = Zero9 /\ sqrt_p = Zero9)

-----------------------------------------------------------------------------
(* read_be, write_be, read_le, write_le, bn_read_be, bn_write_be,          *)
(* bn_read_le, bn_write_le                                                 *)

\* a uint8_t is a TLC integer 0..255; (uint8_t) w keeps the low 8 bits of w
Byte(w) == Dig(w, 1) % 256

\* ((uint32_t)data[0] << 24) | (data[1] << 16) | (data[2] << 8) | data[3]
read_be(data, at) ==
    BOr(BOr(BShl(N(data[at]), 24), BShl(N(data[at + 1]), 16)),
        BOr(BShl(N(data[at + 2]), 8), N(data[at + 3])))

\* data[0] = x >> 24; data[1] = x >> 16; data[2] = x >> 8; data[3] = x;
write_be(data, at, w) ==
    [data EXCEPT ![at] = Byte(BShr(w, 24)), ![at + 1] = Byte(BShr(w, 16)),
                 ![at + 2] = Byte(BShr(w, 8)), ![at + 3] = Byte(w)]

\* ((uint32_t)data[3] << 24) | (data[2] << 16) | (data[1] << 8) | data[0]
read_le(data, at) ==
    BOr(BOr(BShl(N(data[at + 3]), 24), BShl(N(data[at + 2]), 16)),
        BOr(BShl(N(data[at + 1]), 8), N(data[at])))

\* data[3] = x >> 24; data[2] = x >> 16; data[1] = x >> 8; data[0] = x;
write_le(data, at, w) ==
    [data EXCEPT ![at + 3] = Byte(BShr(w, 24)), ![at + 2] = Byte(BShr(w, 16)),
                 ![at + 1] = Byte(BShr(w, 8)), ![at] = Byte(w)]

\* the word read or written in round i of the big or little endian routines
read_word(data, n, e) ==
    IF e = "be" THEN read_be(data, (7 - n) * 4) ELSE read_le(data, n * 4)

write_word(data, n, e, w) ==
    IF e = "be" THEN write_be(data, n * 4, w) ELSE write_le(data, (7 - n) * 4, w)

\* (a wrong shift count for the low part of the word)
write_temp_shift16(t, l, n) == U32(BOr(U32(BShl(t, 16 + 2 * n)), BShr(l, 16 - 2 * n)))

\* temp = (temp << (16 + 2*i)) | (limb >> (14 - 2*i))
write_temp(t, l, n) == U32(BOr(U32(BShl(t, 16 + 2 * n)), BShr(l, 14 - 2 * n)))

\* for (i = 0; i < 8; i++) { limb = read(...); temp |= limb << (2*i);
\*   out_number->val[i] = temp & 0x3FFFFFFF; temp = limb >> (30 - 2*i); }
\* out_number->val[8] = temp;
RECURSIVE bn_read_loop(_, _, _, _, _)
bn_read_loop(data, e, n, t, a) ==
    IF n = 8 THEN [a EXCEPT ![8] = t]
    ELSE LET l  == read_word(data, n, e)
             t2 == BOr(t, U32(BShl(l, 2 * n)))
             a2 == [a EXCEPT ![n] = And30(t2)]
         IN  Then(a2, bn_read_loop(data, e, n + 1, BShr(l, 30 - 2 * n), a2))

bn_read(data, e) == bn_read_loop(data, e, 0, <<>>, Zero9)

bn_read_be(data) == bn_read(data, "be")
bn_read_le(data) == bn_read(data, "le")

\* temp = in_number->val[8]; for (i = 0; i < 8; i++) {
\*   limb = in_number->val[7 - i]; temp = ...; write(..., temp); temp = limb; }
RECURSIVE bn_write_loop(_, _, _, _, _)
bn_write_loop(a, e, n, t, data) ==
    IF n = 8 THEN data
    ELSE LET l  == a[7 - n]
             d2 == write_word(data, n, e, write_temp(t, l, n))
         IN  Then(d2, bn_write_loop(a, e, n + 1, l, d2))

bn_write(a, e) == bn_write_loop(a, e, 0, a[8], [n \in 0..31 |-> 0])

bn_write_be(a) == bn_write(a, "be")
bn_write_le(a) == bn_write(a, "le")

\* fully reduced operands: around 0 and prime, the powers 2^(30 e) and
\* 2^(32 e) - 1 at the limb and word boundaries, and pseudo-random ones
ByteOperands(m) ==
    {FromValue(v) : v \in
        {<<>>, <<1>>, BSub(Value(m), <<1>>), Pow2(255)}
        \cup {Pow2(30 * e) : e \in Limbs}
        \cup {BSub(Pow2(32 * e), <<1>>) : e \in 1..7}}
    \cup {RndBelow(t, Value(m)) : t \in 1..NumRandom}

\* arg is the byte order; out the 32 bytes; ret the bignum256 decoded
Bytes_Init ==
    /\ pc = "encode"
    /\ prime \in Primes
    /\ x \in ByteOperands(prime)
    /\ arg \in {"be", "le"}
    /\ x0 = x
    /\ Idle(k) /\ Idle(res) /\ Idle(temp) /\ Idle(coef)
    /\ Idle(i) /\ Idle(j) /\ Idle(limb) /\ Idle(ret)
    /\ Idle(sqrt_p) /\ Idle(out)
    /\ FormatIdle /\ Idle(steps)

Bytes_Write ==
    /\ pc = "encode"
    /\ out' = IF arg = "be" THEN bn_write_be(x) ELSE bn_write_le(x)
    /\ pc' = "decode"
    /\ UNCHANGED <<x, k, prime, x0, res, temp, coef, i, j, limb, ret, sqrt_p, arg, format_locals, steps>>

Bytes_Read ==
    /\ pc = "decode"
    /\ ret' = IF arg = "be" THEN bn_read_be(out) ELSE bn_read_le(out)
    /\ pc' = "decoded"
    /\ UNCHANGED <<x, k, prime, x0, res, temp, coef, i, j, limb, sqrt_p, arg, out, format_locals, steps>>

Bytes_Next == Bytes_Write \/ Bytes_Read

SpecBytes == Bytes_Init /\ [][Bytes_Next]_vars

\* the value of 32 bytes in the given byte order
RECURSIVE BytesValueFrom(_, _, _, _)
BytesValueFrom(data, e, n, v) ==
    IF n = 32 THEN v
    ELSE LET v2 == BAdd(v, BShl(N(data[IF e = "be" THEN 31 - n ELSE n]), 8 * n))
         IN  Then(v2, BytesValueFrom(data, e, n + 1, v2))

BytesValue(data, e) == BytesValueFrom(data, e, 0, <<>>)

\* C6: for a fully reduced x, decoding the 32 bytes that bn_write_be
\* (bn_write_le) produced gives the same nine limbs back; the bytes hold
\* the value of x, and writing does not change x.
C6_RoundTrip ==
    /\ pc \in {"decode", "decoded"} =>
          (x = x0 /\ BytesValue(out, arg) = Value(x))
    /\ pc = "decoded" => ret = x0

\* a value that fills the top limb and most bytes went through both orders
C6_Witness ==
    /\ pc = "decoded"
    /\ ret[8] # <<>> /\ ret[0] # <<>> /\ ret[4] # <<>>
    /\ out[0] # out[31]
    /\ arg = "le"

-----------------------------------------------------------------------------
(* bn_mult_half, bn_mult_k                                                 *)

\* for (j = 0; j < 8; j++) { tmp2 = x->val[j+1] + (prime->val[j+1] & xodd);
\*   tmp1 += (tmp2 & 1) << 29; x->val[j] = tmp1 & 0x3fffffff;
\*   tmp1 >>= 30; tmp1 += tmp2 >> 1; }
\* x->val[8] = tmp1;
RECURSIVE mult_half_loop(_, _, _, _, _)
mult_half_loop(a, m, xodd, n, tmp1) ==
    IF n = 8 THEN [a EXCEPT ![8] = tmp1]
    ELSE LET tmp2 == U32(BAdd(a[n + 1], BAnd(m[n + 1], xodd)))
             t    == U32(BAdd(tmp1, U32(BShl(BAnd(tmp2, <<1>>), 29))))
             a2   == [a EXCEPT ![n] = And30(t)]
         IN  Then(a2, mult_half_loop(a2, m, xodd, n + 1,
                                     U32(BAdd(BShr(t, 30), BShr(tmp2, 1)))))

\* (prime added whether or not x is odd)
bn_mult_half_always(a, m) ==
    LET xodd == Neg32(<<1>>)
        tmp1 == BShr(U32(BAdd(a[0], BAnd(m[0], xodd))), 1)
    IN  mult_half_loop(a, m, xodd, 0, tmp1)

\* xodd = -(x->val[0] & 1); tmp1 = (x->val[0] + (prime->val[0] & xodd)) >> 1;
bn_mult_half(a, m) ==
    LET xodd == Neg32(BAnd(a[0], <<1>>))
        tmp1 == BShr(U32(BAdd(a[0], BAnd(m[0], xodd))), 1)
    IN  mult_half_loop(a, m, xodd, 0, tmp1)

\* for (j = 0; j < 9; j++) x->val[j] = k * x->val[j];   bn_fast_mod(x, prime);
\* k is a uint8_t, here a TLC integer
bn_mult_k(a, c, m) == bn_fast_mod([n \in Limbs |-> U32(MulW(N(c), a[n]))], m)

\* doubling then halving a fully reduced x ("double"), and halving a partly
\* reduced x ("half"), one call per step
Half_Init ==
    /\ prime \in Primes
    /\ x \in ModOperands(prime)
    /\ \/ pc = "double" /\ BLt(Value(x), Value(prime))
       \/ pc = "half"
    /\ x0 = x
    /\ Idle(k) /\ Idle(res) /\ Idle(temp) /\ Idle(coef)
    /\ Idle(i) /\ Idle(j) /\ Idle(limb) /\ Idle(ret)
    /\ Idle(sqrt_p) /\ Idle(arg) /\ Idle(out)
    /\ FormatIdle /\ Idle(steps)

Half_MultK ==
    /\ pc = "double"
    /\ x' = bn_mult_k(x, 2, prime)
    /\ pc' = "double_half"
    /\ UNCHANGED <<k, prime, x0, res, temp, coef, i, j, limb, ret, sqrt_p, arg, out, format_locals, steps>>

Half_Half ==
    /\ pc \in {"double_half", "half"}
    /\ x' = bn_mult_half(x, prime)
    /\ pc' = IF pc = "half" THEN "half_done" ELSE "double_mod"
    /\ UNCHANGED <<k, prime, x0, res, temp, coef, i, j, limb, ret, sqrt_p, arg, out, format_locals, steps>>

Half_Mod ==
    /\ pc = "double_mod"
    /\ x' = bn_mod(x, prime)
    /\ pc' = "double_done"
    /\ UNCHANGED <<k, prime, x0, res, temp, coef, i, j, limb, ret, sqrt_p, arg, out, format_locals, steps>>

Half_Next == Half_MultK \/ Half_Half \/ Half_Mod

SpecHalf == Half_Init /\ [][Half_Next]_vars

\* C8: for a fully reduced x, bn_mult_k(x, 2, p), then bn_mult_half, then
\* bn_mod give x again (the doubled value being partly reduced with twice
\* the value of x modulo p); and bn_mult_half of a partly reduced x is
\* partly reduced (and is half of x modulo p).
C8_Halving ==
    /\ pc = "double_half" =>
          /\ PartlyReduced(x, prime)
          /\ Congruent(Value(x), BShl(Value(x0), 1), Value(prime))
    /\ pc = "double_done" => x = x0
    /\ pc = "half_done" =>
          /\ PartlyReduced(x, prime)
          /\ Congruent(BShl(Value(x), 1), Value(x0), Value(prime))

\* an odd x above prime / 2 was doubled, reduced, halved (prime being added
\* to the odd doubled value) and reduced to itself
C8_Witness ==
    /\ pc = "double_done"
    /\ BAnd(x0[0], <<1>>) # <<>>
    /\ ~BLt(BShl(Value(x0), 1), Value(prime))
    /\ x = x0

-----------------------------------------------------------------------------
(* bn_divmod1000, bn_digitcount                                            *)

\* a / d and a % d for a machine word a and a TLC integer 0 < d < 2^15, by
\* long division from the top digit; the remainder is a TLC integer
RECURSIVE DivModFrom(_, _, _, _, _)
DivModFrom(a, d, n, q, r) ==
    IF n = 0 THEN [q |-> Trim(q), r |-> r]
    ELSE LET cur == r * B + a[n]
         IN  DivModFrom(a, d, n - 1, <<cur \div d>> \o q, cur % d)

DivMod(a, d) == DivModFrom(a, d, Len(a), <<>>, 0)

\* for (i = 7; i >= 0; i--) { tmp = rem * 824 + a->val[i];
\*   a->val[i] = rem * 1073741 + (tmp / 1000); rem = tmp % 1000; }
\* rem < 1000 is a TLC integer; tmp and a->val[i] are uint32_t
RECURSIVE divmod1000_loop(_, _, _)
divmod1000_loop(a, n, rem) ==
    IF n < 0 THEN [val |-> a, r |-> rem]
    ELSE LET tmp == U32(BAdd(N(rem * 824), a[n]))
             dm  == DivMod(tmp, 1000)
             a2  == [a EXCEPT ![n] = U32(BAdd(N(rem * 1073741), dm.q))]
         IN  Then(a2, divmod1000_loop(a2, n - 1, dm.r))

\* rem = a->val[8] % 1000; a->val[8] /= 1000; ...; *r = rem;
bn_divmod1000(a) ==
    LET dm == DivMod(a[8], 1000)
    IN  divmod1000_loop([a EXCEPT ![8] = dm.q], 7, dm.r)

DIGITS == 78

\* for (i = 0; i < DIGITS; i += 3) { bn_divmod1000(&val, &limb);
\*   if (limb >= 100) digits = i + 3; else if (limb >= 10) digits = i + 2;
\*   else if (limb >= 1) digits = i + 1; }
RECURSIVE digitcount_loop(_, _, _)
digitcount_loop(val, n, d) ==
    IF n >= DIGITS THEN d
    ELSE LET dm == bn_divmod1000(val)
             d2 == IF dm.r >= 100 THEN n + 3
                   ELSE IF dm.r >= 10 THEN n + 2
                   ELSE IF dm.r >= 1 THEN n + 1
                   ELSE d
         IN  Then(dm.val, digitcount_loop(dm.val, n + 3, d2))

bn_digitcount(a) == digitcount_loop(a, 0, 1)

-----------------------------------------------------------------------------
(* bn_format                                                               *)
(*                                                                         *)
(* Characters are their codes.  The buffer out is a function from indices  *)
(* to characters; pointers into it (start, end, str) are indices.  A write *)
(* at an index outside 0..outlen-1 lands in the memory next to the buffer, *)
(* which the function then also covers, and is recorded in oob.            *)

Chr0 == 48
ChrDot == 46
ChrNul == 0

\* the content of a byte never written
Uninit == 0 - 1

\* out[idx] = c
Store(f, idx, c) ==
    [f EXCEPT !.out = (idx :> c) @@ f.out,
              !.oob = f.oob \/ idx < 0 \/ idx >= f.outlen]

\* memcpy(&out[dst], src, strlen(src)), bytes n.. of src
RECURSIVE memcpy(_, _, _, _)
memcpy(f, dst, src, n) ==
    IF n > Len(src) THEN f
    ELSE memcpy(Store(f, dst + n - 1, src[n]), dst, src, n + 1)

\* memmove(&out[dst], &out[from], len), bytes n.. ; src is out before the call
RECURSIVE memmove(_, _, _, _, _, _)
memmove(f, src, dst, from, n, len) ==
    IF n >= len THEN f
    ELSE memmove(Store(f, dst + n, src[from + n]), src, dst, from, n + 1, len)

\* lines 713-729 and 751-756: prefix, suffix, terminator, start, end, str,
\* and exponent = 0 for a zero amount
format_enter(amnt, a, buf) ==
    LET prefixlen == Len(a.prefix)
        suffixlen == Len(a.suffix)
        end == a.outlen - suffixlen - 1
        f0  == [out |-> buf, outlen |-> a.outlen, start |-> prefixlen,
                end |-> end, str |-> end, decimals |-> a.decimals,
                exponent |-> IF bn_is_zero(amnt) = 1 THEN 0 ELSE a.exponent,
                trailing |-> a.trailing, failed |-> FALSE, oob |-> FALSE]
        f1  == memcpy(f0, 0, a.prefix, 1)
        f2  == memcpy(f1, end, a.suffix, 1)
    IN  Store(f2, a.outlen - 1, ChrNul)

\* BN_FORMAT_PUSH_CHECKED(c): if (str == start) return 0; *--str = (c);
\* failed records the return 0, after which nothing more runs
PushChecked(f, c) ==
    IF f.failed THEN f
    ELSE IF f.str = f.start THEN [f EXCEPT !.failed = TRUE]
    ELSE Store([f EXCEPT !.str = f.str - 1], f.str - 1, c)

\* if (decimals > 0 && decimals-- == 1) BN_FORMAT_PUSH_CHECKED('.');
PushPoint(f) ==
    IF f.failed \/ f.decimals <= 0 THEN f
    ELSE LET g == [f EXCEPT !.decimals = f.decimals - 1]
         IN  IF f.decimals = 1 THEN PushChecked(g, ChrDot) ELSE g

\* (a zero digit at the end is kept only if trailing is set)
Push_no_last_decimal(f, n) ==
    IF f.failed THEN f
    ELSE IF f.exponent < 0 THEN [f EXCEPT !.exponent = f.exponent + 1]
    ELSE PushPoint(IF n > 0 \/ f.trailing \/ f.str # f.end
                   THEN PushChecked(f, Chr0 + n)
                   ELSE f)

\* BN_FORMAT_PUSH(n)
Push(f, n) ==
    IF f.failed THEN f
    ELSE IF f.exponent < 0 THEN [f EXCEPT !.exponent = f.exponent + 1]
    ELSE PushPoint(IF n > 0 \/ f.trailing \/ f.str # f.end \/ f.decimals <= 1
                   THEN PushChecked(f, Chr0 + n)
                   ELSE f)

\* for (; exponent > 0; exponent--) BN_FORMAT_PUSH(0);   one iteration
exponent_step(f) ==
    LET g == Push(f, 0)
    IN  IF g.failed THEN g ELSE [g EXCEPT !.exponent = g.exponent - 1]

RECURSIVE exponent_loop(_)
exponent_loop(f) ==
    IF f.failed \/ f.exponent <= 0 THEN f ELSE exponent_loop(exponent_step(f))

\* BN_FORMAT_PUSH(limb % 10); limb /= 10; ...   n digits of limb
RECURSIVE push_digits(_, _, _)
push_digits(f, l, n) ==
    IF n = 0 THEN f ELSE push_digits(Push(f, l % 10), l \div 10, n - 1)

\* bn_divmod1000(&val, &limb) and the pushes of n digits of limb
group_step(f, val, n) ==
    LET dm == bn_divmod1000(val)
    IN  [f |-> push_digits(f, dm.r, n), val |-> dm.val]

\* for (i = 0; i < digits / 3; i++) { ... }
RECURSIVE groups_loop(_, _, _)
groups_loop(s, n, d) ==
    IF s.f.failed \/ n >= d \div 3 THEN s
    ELSE groups_loop(group_step(s.f, s.val, 3), n + 1, d)

\* if (digits % 3 != 0) { bn_divmod1000(&val, &limb); switch (digits % 3) ... }
format_rest(s, d) ==
    IF s.f.failed \/ d % 3 = 0 THEN s ELSE group_step(s.f, s.val, d % 3)

\* decimals > 0 || str[0] == '\0' || str[0] == '.'
pad_more(f) ==
    f.decimals > 0 \/ f.out[f.str] = ChrNul \/ f.out[f.str] = ChrDot

\* while (...) BN_FORMAT_PUSH(0);
RECURSIVE pad_loop(_)
pad_loop(f) == IF f.failed \/ ~pad_more(f) THEN f ELSE pad_loop(Push(f, 0))

\* len = &out[outlen] - str; memmove(&out[prefixlen], str, len);
format_move(f) == memmove(f, f.out, f.start, f.str, 0, f.outlen - f.str)

\* return prefixlen + len - 1;
format_length(f) == f.start + (f.outlen - f.str) - 1

\* the whole call on a buffer buf of a.outlen bytes: the value returned, the
\* memory left, and whether a byte outside the buffer was written
bn_format(amnt, a, buf) ==
    LET f1 == exponent_loop(format_enter(amnt, a, buf))
        d  == bn_digitcount(amnt)
        s  == format_rest(groups_loop([f |-> f1, val |-> amnt], 0, d), d)
        f2 == pad_loop(s.f)
        f3 == format_move(f2)
    IN  IF f2.failed THEN [ret |-> 0, out |-> f2.out, oob |-> f2.oob]
        ELSE [ret |-> format_length(f2), out |-> f3.out, oob |-> f3.oob]

\* largest buffer capacity tried
MaxOut == 12

\* amounts: zero, one to thirteen digits, and the largest 256-bit value
FormatValues ==
    {FromValue(v) : v \in
        {<<>>, N(7), N(42), N(1000), N(100000000),
         BAdd(BMul(N(1234567), N(1000000)), N(890123)),
         BSub(Pow2(256), <<1>>)}}

\* prefix "" or "ab", suffix "" or "x"
FormatArgs ==
    [prefix : {<<>>, <<97, 98>>}, suffix : {<<>>, <<120>>},
     decimals : {0, 2, 8}, exponent : {0 - 1, 0, 1}, trailing : BOOLEAN,
     outlen : 1..MaxOut]

\* a buffer of n bytes nothing was written to
Buffer(n) == [m \in 0..(n - 1) |-> Uninit]

\* bn_format, one loop iteration per step; x0 is amnt and x the local val
Fmt_Init ==
    /\ pc = "format"
    /\ x0 \in FormatValues
    /\ arg \in FormatArgs
    /\ out = Buffer(arg.outlen)
    /\ oob = FALSE
    /\ Idle(x) /\ Idle(k) /\ Idle(prime) /\ Idle(res) /\ Idle(temp)
    /\ Idle(coef) /\ Idle(i) /\ Idle(j) /\ Idle(limb) /\ Idle(ret)
    /\ Idle(sqrt_p)
    /\ Idle(str) /\ Idle(decimals) /\ Idle(exponent) /\ Idle(digits)
    /\ Idle(steps)

\* the locals of the running call
Frame ==
    [out |-> out, outlen |-> arg.outlen, start |-> Len(arg.prefix),
     end |-> arg.outlen - Len(arg.suffix) - 1, str |-> str,
     decimals |-> decimals, exponent |-> exponent,
     trailing |-> arg.trailing, failed |-> FALSE, oob |-> oob]

\* the locals after a step, which ended the call with return 0 if a checked
\* push found str == start
Commit(f, next) ==
    /\ out' = f.out
    /\ str' = f.str
    /\ decimals' = f.decimals
    /\ exponent' = f.exponent
    /\ oob' = f.oob
    /\ IF f.failed THEN pc' = "format_done" /\ ret' = 0
                   ELSE pc' = next /\ UNCHANGED ret

Fmt_Enter ==
    /\ pc = "format"
    /\ x' = x0
    /\ Commit(format_enter(x0, arg, out), "format_exponent")
    /\ UNCHANGED <<k, prime, x0, res, temp, coef, i, j, limb, sqrt_p, arg, digits, steps>>

Fmt_Exponent ==
    /\ pc = "format_exponent"
    /\ exponent > 0
    /\ Commit(exponent_step(Frame), "format_exponent")
    /\ UNCHANGED <<x, k, prime, x0, res, temp, coef, i, j, limb, sqrt_p, arg, digits, steps>>

Fmt_Digitcount ==
    /\ pc = "format_exponent"
    /\ exponent <= 0
    /\ digits' = bn_digitcount(x)
    /\ i' = 0
    /\ pc' = "format_digits"
    /\ UNCHANGED <<x, k, prime, x0, res, temp, coef, j, limb, ret, sqrt_p, arg, out,
                   str, decimals, exponent, oob, steps>>

Fmt_Group ==
    /\ pc = "format_digits"
    /\ i < digits \div 3
    /\ LET s == group_step(Frame, x, 3)
       IN  x' = s.val /\ Commit(s.f, "format_digits")
    /\ i' = i + 1
    /\ UNCHANGED <<k, prime, x0, res, temp, coef, j, limb, sqrt_p, arg, digits, steps>>

Fmt_Rest ==
    /\ pc = "format_digits"
    /\ i >= digits \div 3
    /\ LET s == format_rest([f |-> Frame, val |-> x], digits)
       IN  x' = s.val /\ Commit(s.f, "format_pad")
    /\ UNCHANGED <<k, prime, x0, res, temp, coef, i, j, limb, sqrt_p, arg, digits, steps>>

Fmt_Pad ==
    /\ pc = "format_pad"
    /\ pad_more(Frame)
    /\ Commit(Push(Frame, 0), "format_pad")
    /\ UNCHANGED <<x, k, prime, x0, res, temp, coef, i, j, limb, sqrt_p, arg, digits, steps>>

\* the memmove and the return; a memmove that wrote outside the buffer is
\* undefined: the call returns the computed length or does not return
Fmt_Return ==
    /\ pc = "format_pad"
    /\ ~pad_more(Frame)
    /\ LET f == format_move(Frame)
       IN  /\ out' = f.out
           /\ oob' = f.oob
           /\ \E crashed \in (IF f.oob THEN BOOLEAN ELSE {FALSE}) :
                 IF crashed THEN pc' = "format_crashed" /\ UNCHANGED ret
                 ELSE pc' = "format_done" /\ ret' = format_length(Frame)
    /\ UNCHANGED <<x, k, prime, x0, res, temp, coef, i, j, limb, sqrt_p, arg,
                   str, decimals, exponent, digits, steps>>

\* after a write outside the buffer the behaviour is undefined: the call
\* goes on as written (the other actions) or does not return
Fmt_Crash ==
    /\ pc \in {"format_exponent", "format_digits", "format_pad"}
    /\ oob
    /\ pc' = "format_crashed"
    /\ UNCHANGED <<x, k, prime, x0, res, temp, coef, i, j, limb, ret, sqrt_p, arg, out,
                   format_locals, steps>>

Fmt_Next ==
    \/ Fmt_Enter \/ Fmt_Exponent \/ Fmt_Digitcount \/ Fmt_Group \/ Fmt_Rest
    \/ Fmt_Pad \/ Fmt_Return \/ Fmt_Crash

SpecFormat == Fmt_Init /\ [][Fmt_Next]_vars

\* a capacity no rendering outgrows
Ample == 2^7

\* the number of characters (digits and decimal point) the call renders
\* between prefix and suffix when the buffer is large enough
Rendered(amnt, a) ==
    bn_format(amnt, [a EXCEPT !.outlen = Ample], Buffer(Ample)).ret
        - Len(a.prefix) - Len(a.suffix)

\* the capacity is smaller than prefix + rendered digits + suffix + terminator
TooSmall ==
    arg.outlen < Len(arg.prefix) + Rendered(x0, arg) + Len(arg.suffix) + 1

\* C9: whenever the capacity (>= 1) is smaller than len(prefix) + len(rendered
\* digits and decimal point) + len(suffix) + 1, bn_format returns 0 and
\* never writes outside the buffer.  (It does not: with capacity at most
\* len(prefix) + len(suffix) start lies beyond end, no push meets
\* str == start, and the memmove writes past the buffer.)
C9_TooSmallReturnsZero ==
    (oob \/ (pc = "format_done" /\ ret # 0)) => ~TooSmall

\* the first n characters of out
Text(n) == [m \in 1..n |-> out[m - 1]]

\* a finished call with no prefix, no suffix and exponent 0
Plain(v, d, t) ==
    /\ pc = "format_done"
    /\ x0 = FromValue(v)
    /\ arg.prefix = <<>> /\ arg.suffix = <<>> /\ arg.exponent = 0
    /\ arg.decimals = d /\ arg.trailing = t

\* in a buffer large enough for it, out holds the string s and its
\* terminator, and the length of s was returned
Renders(s) ==
    arg.outlen > Len(s) => (ret = Len(s) /\ Text(ret) = s /\ out[ret] = ChrNul)

\* "1.00000000"
OnePointZeros == <<49, 46, 48, 48, 48, 48, 48, 48, 48, 48>>

\* a call that returned a length left a string of that length in out
LengthReturned ==
    (pc = "format_done" /\ ret # 0 /\ ~oob) =>
        (out[ret] = ChrNul /\ \A n \in 0..(ret - 1) : out[n] # ChrNul)

\* C10 as stated: 100000000 with 8 decimals renders as "1." without trailing
\* zeros and as "1.00000000" with them, 0 with 0 decimals renders as "0",
\* and the returned length is the length of the string.
C10_AsStated ==
    /\ Plain(N(100000000), 8, FALSE) => Renders(<<49, 46>>)
    /\ Plain(N(100000000), 8, TRUE) => Renders(OnePointZeros)
    /\ \A t \in BOOLEAN : Plain(<<>>, 0, t) => Renders(<<48>>)
    /\ LengthReturned

\* C10: 100000000 with 8 decimals renders as "1.0" without trailing zeros
\* (one digit is kept after the point) and as "1.00000000" with them, 0 with
\* 0 decimals renders as "0", and the returned length is the length of the
\* string.
C10_TrailingZeros ==
    /\ Plain(N(100000000), 8, FALSE) => Renders(<<49, 46, 48>>)
    /\ Plain(N(100000000), 8, TRUE) => Renders(OnePointZeros)
    /\ \A t \in BOOLEAN : Plain(<<>>, 0, t) => Renders(<<48>>)
    /\ LengthReturned

\* 100000000 with 8 decimals and no trailing zeros was rendered in three
\* characters
C10_Witness ==
    /\ Plain(N(100000000), 8, FALSE)
    /\ arg.outlen > 3
    /\ ret = 3
    /\ out[2] = Chr0

-----------------------------------------------------------------------------
(* bn_digitcount, one bn_divmod1000 per step                               *)

\* largest power of ten among the operands (10^81 < 2^270 < 10^82)
MaxPow == 81

\* 10^n, by squaring
RECURSIVE Pow10(_)
Pow10(n) ==
    IF n = 0 THEN <<1>>
    ELSE IF n % 2 = 1 THEN BMul(Pow10(n - 1), N(10))
    ELSE LET h == Pow10(n \div 2) IN BMul(h, h)

\* normalized operands: zero, the powers of ten and their predecessors, and
\* the largest 256-bit and 270-bit values
DigitOperands ==
    {FromValue(v) : v \in
        {w \in {Pow10(n) : n \in 0..MaxPow}
               \cup {BSub(Pow10(n), <<1>>) : n \in 0..MaxPow}
               \cup {BSub(Pow2(256), <<1>>), Pow2(256), BSub(Pow2(270), <<1>>)} :
            BLt(w, Pow2(270))}}

\* if (limb >= 100) digits = i + 3; else if (limb >= 10) digits = i + 2;
\* else if (limb >= 1) digits = i + 1;
digits_after(l, n, d) ==
    IF l >= 100 THEN n + 3
    ELSE IF l >= 10 THEN n + 2
    ELSE IF l >= 1 THEN n + 1
    ELSE d

\* x0 is the argument a, arg its value on entry, x the local val
Dc_Init ==
    /\ pc = "digitcount"
    /\ x0 \in DigitOperands
    /\ arg = x0
    /\ Idle(x) /\ Idle(k) /\ Idle(prime) /\ Idle(res) /\ Idle(temp)
    /\ Idle(coef) /\ Idle(i) /\ Idle(j) /\ Idle(limb) /\ Idle(ret)
    /\ Idle(sqrt_p) /\ Idle(out)
    /\ FormatIdle /\ Idle(steps)

\* memcpy(&val, a, sizeof(bignum256)); digits = 1; i = 0;
Dc_Enter ==
    /\ pc = "digitcount"
    /\ x' = x0
    /\ digits' = 1
    /\ i' = 0
    /\ pc' = "digitcount_loop"
    /\ UNCHANGED <<k, prime, x0, res, temp, coef, j, limb, ret, sqrt_p, arg, out,
                   str, decimals, exponent, oob, steps>>

Dc_Loop ==
    /\ pc = "digitcount_loop"
    /\ i < DIGITS
    /\ LET dm == bn_divmod1000(x)
       IN  /\ x' = dm.val
           /\ limb' = dm.r
           /\ digits' = digits_after(dm.r, i, digits)
    /\ i' = i + 3
    /\ UNCHANGED <<pc, k, prime, x0, res, temp, coef, j, ret, sqrt_p, arg, out,
                   str, decimals, exponent, oob, steps>>

Dc_Return ==
    /\ pc = "digitcount_loop"
    /\ i >= DIGITS
    /\ ret' = digits
    /\ pc' = "digitcount_done"
    /\ UNCHANGED <<x, k, prime, x0, res, temp, coef, i, j, limb, sqrt_p, arg, out,
                   format_locals, steps>>

Dc_Next == Dc_Enter \/ Dc_Loop \/ Dc_Return

SpecDigits == Dc_Init /\ [][Dc_Next]_vars

\* the length of the decimal representation of v without leading zeros
\* (1 for zero): the least n >= 1 with v < 10^n
DecLen(v) ==
    CHOOSE n \in 1..(MaxPow + 1) :
        /\ BLt(v, Pow10(n))
        /\ n = 1 \/ ~BLt(v, Pow10(n - 1))

\* C11: for every normalized a (every value from 0 up to 2^270 - 1)
\* bn_digitcount(a) is the length of the decimal representation of a (1 for
\* zero), and a is left unchanged.  (It is not: the loop looks at DIGITS = 78
\* digits only, so the digits of a value of 10^78 or more beyond the 78th
\* are not counted.)
C11_DigitCount ==
    pc = "digitcount_done" => (ret = DecLen(Value(x0)) /\ x0 = arg)

-----------------------------------------------------------------------------
(* bn_is_zero, bn_is_less, bn_is_equal, bn_cmov, one statement per step    *)
(*                                                                         *)
(* x is a (truecase), k is b (falsecase), arg the routine called and cond, *)
(* res the local result (result; res1 and res2; the bignum written by      *)
(* bn_cmov), temp the masks of bn_cmov.  steps records every statement     *)
(* executed, with the limb index it uses.                                  *)

\* operands of bn_cmov: normalized ones and arbitrary 32-bit limbs
SelectOperands == CmpOperands \cup {RndWords(t) : t \in 1..NumRandom}

Visit(statement, n) == steps' = Append(steps, <<statement, n>>)

CT_Init ==
    /\ arg \in [fn : {"is_zero", "is_less", "is_equal"}, cond : {0}]
               \cup [fn : {"cmov"}, cond : {0, 1}]
    /\ pc = arg.fn
    /\ x \in SelectOperands
    /\ k \in SelectOperands
    /\ x0 = x
    /\ steps = <<>>
    /\ Idle(prime) /\ Idle(res) /\ Idle(temp) /\ Idle(coef)
    /\ Idle(i) /\ Idle(j) /\ Idle(limb) /\ Idle(ret)
    /\ Idle(sqrt_p) /\ Idle(out)
    /\ FormatIdle

\* uint32_t result = 0;  i = 0
IsZero_Enter ==
    /\ pc = "is_zero"
    /\ res' = <<>>
    /\ i' = 0
    /\ pc' = "is_zero_loop"
    /\ Visit("enter", 0)
    /\ UNCHANGED <<x, k, prime, x0, temp, coef, j, limb, ret, sqrt_p, arg, out,
                   format_locals>>

\* result |= a->val[i];
IsZero_Loop ==
    /\ pc = "is_zero_loop"
    /\ i < 9
    /\ res' = BOr(res, x[i])
    /\ i' = i + 1
    /\ Visit("limb", i)
    /\ UNCHANGED <<pc, x, k, prime, x0, temp, coef, j, limb, ret, sqrt_p, arg, out,
                   format_locals>>

\* return !result;
IsZero_Return ==
    /\ pc = "is_zero_loop"
    /\ i >= 9
    /\ ret' = Bool(res = <<>>)
    /\ pc' = "is_zero_done"
    /\ Visit("return", i)
    /\ UNCHANGED <<x, k, prime, x0, res, temp, coef, i, j, limb, sqrt_p, arg, out,
                   format_locals>>

\* uint32_t res1 = 0; uint32_t res2 = 0;  i = 8
IsLess_Enter ==
    /\ pc = "is_less"
    /\ res' = [res1 |-> <<>>, res2 |-> <<>>]
    /\ i' = 8
    /\ pc' = "is_less_loop"
    /\ Visit("enter", 8)
    /\ UNCHANGED <<x, k, prime, x0, temp, coef, j, limb, ret, sqrt_p, arg, out,
                   format_locals>>

\* res1 = (res1 << 1) | (a->val[i] < b->val[i]);
\* res2 = (res2 << 1) | (a->val[i] > b->val[i]);
IsLess_Loop ==
    /\ pc = "is_less_loop"
    /\ i >= 0
    /\ res' = [res1 |-> less_shift(res.res1, BLt(x[i], k[i])),
               res2 |-> less_shift(res.res2, BLt(k[i], x[i]))]
    /\ i' = i - 1
    /\ Visit("limb", i)
    /\ UNCHANGED <<pc, x, k, prime, x0, temp, coef, j, limb, ret, sqrt_p, arg, out,
                   format_locals>>

\* return res1 > res2;
IsLess_Return ==
    /\ pc = "is_less_loop"
    /\ i < 0
    /\ ret' = Bool(BLt(res.res2, res.res1))
    /\ pc' = "is_less_done"
    /\ Visit("return", i)
    /\ UNCHANGED <<x, k, prime, x0, res, temp, coef, i, j, limb, sqrt_p, arg, out,
                   format_locals>>

\* uint32_t result = 0;  i = 0
IsEqual_Enter ==
    /\ pc = "is_equal"
    /\ res' = <<>>
    /\ i' = 0
    /\ pc' = "is_equal_loop"
    /\ Visit("enter", 0)
    /\ UNCHANGED <<x, k, prime, x0, temp, coef, j, limb, ret, sqrt_p, arg, out,
                   format_locals>>

\* result |= (a->val[i] ^ b->val[i]);
IsEqual_Loop ==
    /\ pc = "is_equal_loop"
    /\ i < 9
    /\ res' = BOr(res, BXor(x[i], k[i]))
    /\ i' = i + 1
    /\ Visit("limb", i)
    /\ UNCHANGED <<pc, x, k, prime, x0, temp, coef, j, limb, ret, sqrt_p, arg, out,
                   format_locals>>

\* return !result;
IsEqual_Return ==
    /\ pc = "is_equal_loop"
    /\ i >= 9
    /\ ret' = Bool(res = <<>>)
    /\ pc' = "is_equal_done"
    /\ Visit("return", i)
    /\ UNCHANGED <<x, k, prime, x0, res, temp, coef, i, j, limb, sqrt_p, arg, out,
                   format_locals>>

\* (the two masks exchanged)
cmov_limb_masks_exchanged(t, f, masks) ==
    BOr(BAnd(t, masks.fmask), BAnd(f, masks.tmask))

\* (truecase->val[i] & tmask) | (falsecase->val[i] & fmask)
cmov_limb(t, f, masks) == BOr(BAnd(t, masks.tmask), BAnd(f, masks.fmask))

\* tmask = (uint32_t) -cond; fmask = ~tmask; assert (cond == 1 || cond == 0);
\* res is the caller's bignum, of unknown content
Cmov_Enter ==
    /\ pc = "cmov"
    /\ arg.cond = 1 \/ arg.cond = 0
    /\ temp' = [tmask |-> Neg32(N(arg.cond)), fmask |-> Not32(Neg32(N(arg.cond)))]
    /\ res' \in {Zero9, x, k}
    /\ i' = 0
    /\ pc' = "cmov_loop"
    /\ Visit("enter", 0)
    /\ UNCHANGED <<x, k, prime, x0, coef, j, limb, ret, sqrt_p, arg, out,
                   format_locals>>

\* res->val[i] = (truecase->val[i] & tmask) | (falsecase->val[i] & fmask);
Cmov_Loop ==
    /\ pc = "cmov_loop"
    /\ i < 9
    /\ res' = [res EXCEPT ![i] = cmov_limb(x[i], k[i], temp)]
    /\ i' = i + 1
    /\ Visit("limb", i)
    /\ UNCHANGED <<pc, x, k, prime, x0, temp, coef, j, limb, ret, sqrt_p, arg, out,
                   format_locals>>

Cmov_Return ==
    /\ pc = "cmov_loop"
    /\ i >= 9
    /\ pc' = "cmov_done"
    /\ Visit("return", i)
    /\ UNCHANGED <<x, k, prime, x0, res, temp, coef, i, j, limb, ret, sqrt_p, arg, out,
                   format_locals>>

CT_Next ==
    \/ IsZero_Enter \/ IsZero_Loop \/ IsZero_Return
    \/ IsLess_Enter \/ IsLess_Loop \/ IsLess_Return
    \/ IsEqual_Enter \/ IsEqual_Loop \/ IsEqual_Return
    \/ Cmov_Enter \/ Cmov_Loop \/ Cmov_Return

SpecCT == CT_Init /\ [][CT_Next]_vars

\* the statements a call of fn runs when no exit and no branch depends on a
\* limb: the entry, the nine limbs in the routine's order, the return
Schedule(fn) ==
    LET up == fn # "is_less"
    IN  <<<<"enter", IF up THEN 0 ELSE 8>>>>
        \o [n \in 1..9 |-> <<"limb", IF up THEN n - 1 ELSE 9 - n>>]
        \o <<<<"return", IF up THEN 9 ELSE 0 - 1>>>>

Returned == pc \in {"is_zero_done", "is_less_done", "is_equal_done", "cmov_done"}

\* C12: bn_is_zero, bn_is_equal and bn_is_less run the same statements
\* whatever the operands: what has been executed is always the beginning of
\* the one schedule of the routine, which visits all nine limbs before the
\* return; bn_cmov with cond 0 or 1 does likewise and leaves truecase in res
\* when cond = 1 and falsecase when cond = 0.
C12_ConstantTime ==
    /\ Len(steps) <= Len(Schedule(arg.fn))
    /\ steps = SubSeq(Schedule(arg.fn), 1, Len(steps))
    /\ Returned => steps = Schedule(arg.fn)
    /\ pc = "cmov_done" => res = (IF arg.cond = 1 THEN x ELSE k)
    /\ (x = x0 /\ (Returned /\ arg.fn # "cmov" =>
          ret = (CASE arg.fn = "is_zero" -> bn_is_zero(x)
                   [] arg.fn = "is_less" -> bn_is_less(x, k)
                   [] arg.fn = "is_equal" -> bn_is_equal(x, k))))

\* bn_is_less returned after all nine limbs although the top limbs already
\* differ, and bn_cmov selected falsecase over a different truecase
C12_Witness ==
    \/ /\ pc = "is_less_done"
       /\ x[8] # k[8]
       /\ Len(steps) = 11
       /\ ret = 1
    \/ /\ pc = "cmov_done"
       /\ arg.cond = 0
       /\ x # k
       /\ res = k

====
